---- MODULE Spec2Model ----
(***************************************************************************)
(* A model of jbl: text -> PNG.  main (src/src/main.rs) chains             *)
(*   Cmd::new_command -> into_metrics -> render -> print_out.              *)
(*                                                                         *)
(* Strings are sequences of one-character strings.  f32 values (size,      *)
(* line height, run width, render height) are fixed-point numbers counted  *)
(* in hundredths of a pixel, so that `as u32` is a real truncation.        *)
(***************************************************************************)
EXTENDS Integers, Sequences, FiniteSets, TLC

VARIABLES
    pc,         \* position of main: start, read, built, drawing, rendered, encoded, writing, done, panicked
    overflow_checks, \* build profile: TRUE = arithmetic overflow panics, FALSE = it wraps
    args,       \* the parsed command line (font, size, color, bg_color, padding)
    text_buf,   \* the text read from FILE or standard input
    metrics,    \* <<>> or <<Metrics>>: the value Metrics::new returned
    lay,        \* locals of render: line_number, max_line_length, render_height, line_w, max_width, max_height
    img_buf,    \* <<>> or <<canvas>>: the ImageBuffer of render
    glyph,      \* <<>> or <<the last GlyphDraw handed to the draw callback>>
    pending,    \* number of GlyphDraw samples the shaper has yet to hand to the callback
    png,        \* <<>> or the encoded byte stream, as a sequence of chunks
    out,        \* what standard output has received, a sequence of chunks
    err,        \* the panic message, "" when none
    trace       \* history: the stages begun, in order

vars == <<pc, overflow_checks, args, text_buf, metrics, lay, img_buf, glyph, pending, png, out, err, trace>>

(***************************************************************************)
(* Bounds of the model.                                                    *)
(***************************************************************************)
MaxColorLen == 4      \* generated color strings have at most this many characters
MaxTextLen == 3       \* texts have at most this many characters
MaxPadding == 1       \* paddings 0..MaxPadding (besides the default 8 of scenario S1)
MaxRunHalfPx == 3     \* measured run widths 0, 0.5, .. MaxRunHalfPx/2 pixels
MaxDraws == 2         \* samples the shaper hands to the draw callback per render

LF == "\n"

Max(a, b) == IF a >= b THEN a ELSE b
Min(a, b) == IF a <= b THEN a ELSE b

RECURSIVE StringsUpTo(_, _)
\* all strings over alphabet `abc` with at most n characters
StringsUpTo(abc, n) ==
    IF n = 0 THEN {<<>>}
    ELSE LET shorter == StringsUpTo(abc, n - 1)
         IN  shorter \cup {Append(s, c) : s \in {t \in shorter : Len(t) = n - 1}, c \in abc}

(***************************************************************************)
(* Metrics::new: the font family, the color check, hex_to_rgb.             *)
(***************************************************************************)
HexDigits == {"0","1","2","3","4","5","6","7","8","9",
              "a","b","c","d","e","f","A","B","C","D","E","F"}

\* char::to_digit(16)
DigitValue(c) ==
    CASE c = "0" -> 0 [] c = "1" -> 1 [] c = "2" -> 2 [] c = "3" -> 3 [] c = "4" -> 4
      [] c = "5" -> 5 [] c = "6" -> 6 [] c = "7" -> 7 [] c = "8" -> 8 [] c = "9" -> 9
      [] c \in {"a", "A"} -> 10 [] c \in {"b", "B"} -> 11 [] c \in {"c", "C"} -> 12
      [] c \in {"d", "D"} -> 13 [] c \in {"e", "E"} -> 14 [] c \in {"f", "F"} -> 15

Family(tag, name) == [tag |-> tag, name |-> name]

\* a slip of the match: "Fantasy" falls to the arm above it
FamilyOf_CopiedArm(font) ==
    CASE font = "Serif" -> Family("Serif", "")
      [] font = "SansSerif" -> Family("SansSerif", "")
      [] font = "Cursive" -> Family("Cursive", "")
      [] font = "Fantasy" -> Family("Cursive", "")
      [] font = "Monospace" -> Family("Monospace", "")
      [] OTHER -> Family("Name", font)

\* match font.as_str() { .. }
FamilyOf(font) ==
    CASE font = "Serif" -> Family("Serif", "")
      [] font = "SansSerif" -> Family("SansSerif", "")
      [] font = "Cursive" -> Family("Cursive", "")
      [] font = "Fantasy" -> Family("Fantasy", "")
      [] font = "Monospace" -> Family("Monospace", "")
      [] OTHER -> Family("Name", font)

\* a slip of the pattern: the {6} of the first alternative dropped to {5}
hex_color_regex_Five(s) ==
    /\ Len(s) \in {6, 4}
    /\ s[1] = "#"
    /\ \A i \in 2..Len(s) : s[i] \in HexDigits

\* ^#([a-fA-F0-9]{6}|[a-fA-F0-9]{3})$  (no multi-line flag: $ is the end of the text)
hex_color_regex(s) ==
    /\ Len(s) \in {7, 4}
    /\ s[1] = "#"
    /\ \A i \in 2..Len(s) : s[i] \in HexDigits

RECURSIVE Radix16(_, _)
\* the digit loop of u32::from_str_radix(.., 16), acc * 16 + digit
Radix16(s, acc) ==
    IF s = <<>> THEN acc ELSE Radix16(Tail(s), acc * 16 + DigitValue(Head(s)))

RECURSIVE SkipZeros(_)
SkipZeros(s) == IF s # <<>> /\ Head(s) = "0" THEN SkipZeros(Tail(s)) ELSE s

\* u32::from_str_radix(hex, 16): <<n>>, or <<>> for Err (empty, a non-digit, or more
\* than 32 bits)
from_str_radix(s) ==
    LET digits == IF s # <<>> /\ Head(s) = "+" THEN Tail(s) ELSE s
    IN  IF digits = <<>> \/ (\E i \in 1..Len(digits) : digits[i] \notin HexDigits)
           \/ Len(SkipZeros(digits)) > 8
        THEN <<>>
        ELSE <<Radix16(digits, 0)>>

RECURSIVE Doubled(_)
\* hex.chars().flat_map(|c| repeat(c).take(2)).collect()
Doubled(s) == IF s = <<>> THEN <<>> ELSE <<Head(s), Head(s)>> \o Doubled(Tail(s))

\* a slip of the expansion: the three digits are padded, not doubled
Expand_Padded(hex) == IF Len(hex) = 3 THEN hex \o <<"0", "0", "0">> ELSE hex

\* match hex.len() { 3 => doubled, _ => hex.to_string() }
Expand(hex) == IF Len(hex) = 3 THEN Doubled(hex) ELSE hex

\* hex_to_rgb: <<r, g, b>>, or <<>> when &hex[1..] or the unwrap panics
hex_to_rgb(hex) ==
    IF hex = <<>> THEN <<>>
    ELSE LET n == from_str_radix(Expand(Tail(hex)))
         IN  IF n = <<>> THEN <<>>
             ELSE << (n[1] \div 65536) % 256, (n[1] \div 256) % 256, n[1] % 256 >>

InvalidColorMsg == "The color input must be in a legal hexadecimal format!"
UnwrapMsg == "called Result::unwrap() on an Err value"

\* the struct literal that ends Metrics::new
NewMetrics(text, a) ==
    [text |-> text, font |-> FamilyOf(a.font), size |-> a.size,
     color |-> hex_to_rgb(a.color), bg_color |-> hex_to_rgb(a.bg_color),
     padding |-> a.padding]

\* a slip of the error handling: the failure is reported and the run goes on
Panic_Logged(msg) ==
    /\ pc' = CASE pc = "start" -> "read" [] pc = "read" -> "built" [] pc = "built" -> "drawing"
               [] pc = "rendered" -> "encoded" [] OTHER -> pc
    /\ err' = msg

\* panic!, and the expect and unwrap of an Err: the process ends with the message
Panic(msg) ==
    /\ pc' = "panicked"
    /\ err' = msg

\* Metrics::new(text_buf, font, size, color, bg_color, padding), called last by into_metrics
New ==
    /\ pc = "read"
    /\ trace' = Append(trace, "build")
    /\ IF ~hex_color_regex(args.color) \/ ~hex_color_regex(args.bg_color)
       THEN Panic(InvalidColorMsg) /\ UNCHANGED metrics
       ELSE IF hex_to_rgb(args.color) = <<>> \/ hex_to_rgb(args.bg_color) = <<>>
       THEN Panic(UnwrapMsg) /\ UNCHANGED metrics
       ELSE /\ metrics' = <<NewMetrics(text_buf, args)>>
            /\ pc' = "built"
            /\ UNCHANGED err
    /\ UNCHANGED <<overflow_checks, args, text_buf, lay, img_buf, glyph, pending, png, out>>

(***************************************************************************)
(* Inputs.                                                                 *)
(***************************************************************************)
Str3(a, b, c) == <<a, b, c>>

ColorAlphabet == {"#", "0", "f", "B", "g"}
HexSample == {"0", "f", "B"}

\* the colors of the repository's tests and of the command line's defaults
ExampleColors ==
    { <<"#","0">>, <<"0","0","0">>, <<"#","q","w","1","2","!","@">>,
      <<"#","f","f","f","f","f","f","9","9">>, <<"#","f","f","f">>, <<"#","f","F","f">>,
      <<"#","0","0","0">>, <<"#","F","F","F">>, <<"#","4","B","0","0","8","2">>,
      <<"#","c","d","d","6","f","4">>, <<"#","1","e","1","e","2","e">>,
      <<"#","f","f","f","\n">>, <<>> }

SixDigitColors ==
    { <<"#">> \o Str3(a, b, c) \o Str3(d, e, f) :
        a \in HexSample, b \in HexSample, c \in HexSample,
        d \in HexSample, e \in HexSample, f \in {"0", "f"} }

ColorInputs == StringsUpTo(ColorAlphabet, MaxColorLen) \cup SixDigitColors \cup ExampleColors

PartnerColors == { <<"#","0","0","0">>, <<"#","1","e","1","e","2","e">>, <<"#","0">>, <<"#","f","f","f","f","f","f","9","9">> }

FontInputs == {"Serif", "SansSerif", "Cursive", "Fantasy", "Monospace", "Cascadia Mono",
               "serif", "sansserif", "CURSIVE", "fantasy", "monospace", "Mono space", ""}

\* "a" is a one-byte character, "é" a two-byte one
TextAlphabet == {"a", "é", LF}
Texts == StringsUpTo(TextAlphabet, MaxTextLen)

Sizes == {100, 1600, 1800}     \* 1.0, 16.0 (the tests), 18.0 (the default)

ArgsOf(font, size, color, bg_color, padding) ==
    [font |-> font, size |-> size, color |-> color, bg_color |-> bg_color, padding |-> padding,
     file |-> "-"]

NoLay == [line_number |-> 0, max_line_length |-> 0, render_height |-> 0,
          line_w |-> 0, max_width |-> 0, max_height |-> 0]

\* nothing rendered, encoded or written yet
Fresh ==
    /\ metrics = <<>>
    /\ lay = NoLay
    /\ img_buf = <<>>
    /\ glyph = <<>>
    /\ pending = 0
    /\ png = <<>>
    /\ out = <<>>
    /\ err = ""

\* Metrics::new on its own: the input has been read, the arguments range widely
InitNew ==
    /\ pc = "read"
    /\ trace = <<"read">>
    /\ overflow_checks \in BOOLEAN
    /\ Fresh
    /\ \/ /\ text_buf = <<>>
          /\ \E c \in ColorInputs, p \in PartnerColors :
                args \in {ArgsOf("Monospace", 1600, c, p, 8), ArgsOf("Monospace", 1600, p, c, 8)}
       \/ /\ text_buf \in {<<>>, <<"a", LF, "é">>}
          /\ \E f \in FontInputs, s \in Sizes, p \in {0, 8, 255} :
                args \in {ArgsOf(f, s, <<"#","F","F","F">>, <<"#","0","0","0">>, p),
                          ArgsOf(f, s, <<"#","0">>, <<"#","0","0","0">>, p)}

NextNew == New

SpecNew == InitNew /\ [][NextNew]_vars

(***************************************************************************)
(* Metrics::render.                                                        *)
(*                                                                         *)
(* A usize is an integer n: n >= 0 is the value n, and n < 0 stands for    *)
(* 2^64 + n, the result of a subtraction that wrapped.                     *)
(***************************************************************************)
\* str::len: the length in bytes of the UTF-8 encoding
Utf8Len(c) == IF c = "é" THEN 2 ELSE 1

RECURSIVE ByteLen(_)
ByteLen(text) == IF text = <<>> THEN 0 ELSE Utf8Len(Head(text)) + ByteLen(Tail(text))

RECURSIVE carrige_from(_, _)
carrige_from(text, i) ==
    IF i > Len(text) THEN <<>>
    ELSE (IF text[i] = LF THEN <<i - 1>> ELSE <<>>) \o carrige_from(text, i + 1)

\* text.chars().enumerate().filter(|(_, c)| *c == '\n'): the char indexes of the newlines
carrige_pos(text) == carrige_from(text, 1)

\* Ord::max on usize
UsizeMax(a, b) == IF (a < 0) = (b < 0) THEN Max(a, b) ELSE IF a < 0 THEN a ELSE b

RECURSIVE FoldLines(_, _, _, _)
\* carrige_pos.iter().fold((0, 0), |(len, pre), (idx, _)| ((*idx - pre - 1).max(len), *idx)):
\* the length found, and whether a subtraction went below zero
FoldLines(pos, len, pre, wrapped) ==
    IF pos = <<>> THEN [len |-> len, wrapped |-> wrapped]
    ELSE LET idx == Head(pos)
             d == idx - pre - 1
         IN  FoldLines(Tail(pos), UsizeMax(d, len), idx, wrapped \/ d < 0)

\* self.text.len()
TextLen(text) == ByteLen(text)

\* the measured widths the shaper may report, fold(0.0, |width, run| run.line_w.max(width)):
\* 0 for a text without glyphs, else any width up to the bound
RunWidths(text) ==
    IF \A i \in 1..Len(text) : text[i] = LF THEN {0}
    ELSE {50 * k : k \in 0..MaxRunHalfPx}

\* self.size * 1.2
line_height(size) == (size * 12) \div 10

\* `as u32` of a non-NaN f32: truncation toward zero, negative values to 0
AsU32(f) == IF f <= 0 THEN 0 ELSE f \div 100

\* a slip of the allocation: the padding added once
CanvasSide_OnePad(content, padding) == content + padding

\* max_width + self.padding as u32 * 2
CanvasSide(content, padding) == content + padding * 2

\* a slip of the fill: the buffer left as ImageBuffer::new made it, all zero
Background_Unfilled(bg_color) == <<0, 0, 0>>

\* image::Rgb([self.bg_color.0, self.bg_color.1, self.bg_color.2])
Background(bg_color) == <<bg_color[1], bg_color[2], bg_color[3]>>

Canvas(w, h, fill) ==
    [width |-> w, height |-> h, px |-> [p \in (0..(w - 1)) \X (0..(h - 1)) |-> fill]]

\* render up to the background fill: stage 1, stage 2 and stage 3a
RenderBegin ==
    /\ pc = "built"
    /\ trace' = Append(trace, "render")
    /\ LET m == metrics[1]
           pos == carrige_pos(m.text)
           line_number == Len(pos) + 1
           folded == FoldLines(pos, 0, 0, FALSE)
           max_line_length == IF line_number = 1 THEN TextLen(m.text) ELSE folded.len
           render_height == line_height(m.size) * line_number
       IN  IF line_number # 1 /\ folded.wrapped /\ overflow_checks
           THEN /\ Panic("attempt to subtract with overflow")
                /\ UNCHANGED <<lay, img_buf>>
           ELSE \E line_w \in RunWidths(m.text) :
                  LET max_width == AsU32(line_w)
                      max_height == AsU32(render_height)
                  IN  /\ lay' = [line_number |-> line_number,
                                 max_line_length |-> max_line_length,
                                 render_height |-> render_height,
                                 line_w |-> line_w,
                                 max_width |-> max_width,
                                 max_height |-> max_height]
                      /\ img_buf' = <<Canvas(CanvasSide(max_width, m.padding),
                                             CanvasSide(max_height, m.padding),
                                             Background(m.bg_color))>>
                      /\ pc' = "drawing"
                      /\ UNCHANGED err
    /\ UNCHANGED <<overflow_checks, args, text_buf, metrics, glyph, pending, png, out>>

GlyphDraw(x, y, w, h, c, a) == [x |-> x, y |-> y, w |-> w, h |-> h, color |-> c, a |-> a]

\* the early return of the draw callback
Skipped(g, l) ==
    \/ g.a = 0
    \/ g.x < 0
    \/ g.x >= l.max_width
    \/ g.y < 0
    \/ g.y >= l.max_height
    \/ g.w # 1
    \/ g.h # 1

\* (c as i32 * a as i32 / 255).clamp(0, 255) as u8
scale(c, a) == Min(Max((c * a) \div 255, 0), 255)

\* a slip of the offset: the padding left out
PixelAt_NoPadding(g, padding) == <<g.x, g.y>>

\* (x as u32 + self.padding as u32, y as u32 + self.padding as u32)
PixelAt(g, padding) == <<g.x + padding, g.y + padding>>

\* the sample sizes and coverages the shaper hands to the callback
SampleSizes == {<<1, 1>>, <<2, 1>>, <<1, 0>>}
Coverages == {0, 128, 255}

\* one call of the closure given to buffer.draw
Draw ==
    /\ pc = "drawing"
    /\ pending > 0
    /\ pending' = pending - 1
    /\ \E x \in (-1)..(lay.max_width + 1), y \in (-1)..(lay.max_height + 1),
          wh \in SampleSizes, a \in Coverages :
         LET g == GlyphDraw(x, y, wh[1], wh[2], metrics[1].color, a)
             at == PixelAt(g, metrics[1].padding)
             img == img_buf[1]
         IN  /\ glyph' = <<g>>
             /\ IF Skipped(g, lay)
                THEN UNCHANGED <<img_buf, pc, err>>
                ELSE IF at[1] < img.width /\ at[2] < img.height
                THEN /\ img_buf' = <<[img EXCEPT !.px[at] =
                                        <<scale(g.color[1], g.a), scale(g.color[2], g.a),
                                          scale(g.color[3], g.a)>>]>>
                     /\ UNCHANGED <<pc, err>>
                ELSE /\ Panic("Image index out of bounds")
                     /\ UNCHANGED img_buf
    /\ UNCHANGED <<overflow_checks, args, text_buf, metrics, lay, png, out, trace>>

\* buffer.draw has made its last call; render returns img_buf
RenderReturn ==
    /\ pc = "drawing"
    /\ pending = 0
    /\ pc' = "rendered"
    /\ UNCHANGED <<overflow_checks, args, text_buf, metrics, lay, img_buf, glyph, pending,
                   png, out, err, trace>>

DefaultColor == <<"#","c","d","d","6","f","4">>
DefaultBackground == <<"#","1","e","1","e","2","e">>

\* render on its own: a descriptor Metrics::new returned.  Either any text and a shaper
\* that emits no sample, or a few texts and MaxDraws samples (one sample on the large
\* canvas of the defaults).
InitRender ==
    /\ pc = "built"
    /\ trace = <<"read", "build">>
    /\ lay = NoLay
    /\ img_buf = <<>>
    /\ glyph = <<>>
    /\ png = <<>>
    /\ out = <<>>
    /\ err = ""
    /\ \/ /\ text_buf \in Texts
          /\ overflow_checks \in BOOLEAN
          /\ pending = 0
          /\ \E s \in {50, 100}, p \in 0..MaxPadding :
                args = ArgsOf("Monospace", s, DefaultColor, DefaultBackground, p)
       \/ /\ text_buf \in {<<>>, <<"h", "i", LF, "w", "o", "r", "l", "d">>}
          /\ overflow_checks \in BOOLEAN
          /\ pending = 0
          /\ args = ArgsOf("Monospace", 1800, DefaultColor, DefaultBackground, 8)
       \/ /\ text_buf \in {<<>>, <<"a">>, <<"a", LF, "é">>}
          /\ overflow_checks = FALSE
          /\ pending = MaxDraws
          /\ \E p \in 0..MaxPadding :
                args = ArgsOf("Monospace", 100, <<"#","f","f","f">>, DefaultBackground, p)
       \/ /\ text_buf = <<>>
          /\ overflow_checks = FALSE
          /\ pending = 1
          /\ args = ArgsOf("Monospace", 1800, DefaultColor, DefaultBackground, 8)
    /\ metrics = <<NewMetrics(text_buf, args)>>

NextRender == RenderBegin \/ Draw \/ RenderReturn

SpecRender == InitRender /\ [][NextRender]_vars

(***************************************************************************)
(* into_metrics (the read), print_out, and main's chain.                   *)
(***************************************************************************)
StdinTexts == {<<>>, <<"a">>, <<LF, "a">>, <<"a", LF, "é">>}

\* into_metrics up to its last line: the arguments are fetched, FILE or stdin is read
ReadInput ==
    /\ pc = "start"
    /\ trace' = Append(trace, "read")
    /\ \/ /\ text_buf' \in StdinTexts
          /\ pc' = "read"
          /\ UNCHANGED err
       \/ /\ \E msg \in (IF args.file # "-" THEN {"Failed to open file", "Failed to read file"}
                         ELSE {"Failed to read std input"}) : Panic(msg)
          /\ UNCHANGED text_buf
    /\ UNCHANGED <<overflow_checks, args, metrics, lay, img_buf, glyph, pending, png, out>>

\* what self.write_to(&mut buffer, Png) leaves in the cursor: header, pixel data, end
PngOf(img) ==
    << [chunk |-> "IHDR", data |-> <<img.width, img.height>>],
       [chunk |-> "IDAT", data |-> <<img.px>>],
       [chunk |-> "IEND", data |-> <<>>] >>

\* the PNG encoder refuses an image without pixels
EncodeFails(img) == img.width = 0 \/ img.height = 0

\* print_out, first statement: the image is encoded into an in-memory cursor
Encode ==
    /\ pc = "rendered"
    /\ trace' = Append(trace, "encode")
    /\ IF EncodeFails(img_buf[1])
       THEN Panic(UnwrapMsg) /\ UNCHANGED png
       ELSE /\ png' = PngOf(img_buf[1])
            /\ pc' = "encoded"
            /\ UNCHANGED err
    /\ UNCHANGED <<overflow_checks, args, text_buf, metrics, lay, img_buf, glyph, pending, out>>

\* print_out, second statement: stdout().write_all(buffer.get_ref()).unwrap().  write_all
\* loops over write calls: each hands over a further part, or fails.
Write ==
    /\ pc \in {"encoded", "writing"}
    /\ trace' = IF pc = "encoded" THEN Append(trace, "write") ELSE trace
    /\ \/ /\ out' = Append(out, png[Len(out) + 1])
          /\ pc' = IF Len(out) + 1 = Len(png) THEN "done" ELSE "writing"
          /\ UNCHANGED err
       \/ /\ Panic(UnwrapMsg)
          /\ UNCHANGED out
    /\ UNCHANGED <<overflow_checks, args, text_buf, metrics, lay, img_buf, glyph, pending, png>>

\* the process as main starts it: the command line parsed, nothing read yet
Init ==
    /\ pc = "start"
    /\ trace = <<>>
    /\ text_buf = <<>>
    /\ overflow_checks \in BOOLEAN
    /\ metrics = <<>>
    /\ lay = NoLay
    /\ img_buf = <<>>
    /\ glyph = <<>>
    /\ pending \in {0, 1}
    /\ png = <<>>
    /\ out = <<>>
    /\ err = ""
    /\ \E f \in {"-", "in.txt"}, p \in 0..MaxPadding,
          c \in {DefaultColor, <<"#","f","f","f">>, <<"#","q","w","1","2","!","@">>},
          b \in {DefaultBackground, <<"0","0","0">>} :
         args = [ArgsOf("Monospace", 100, c, b, p) EXCEPT !.file = f]

Next == ReadInput \/ New \/ RenderBegin \/ Draw \/ RenderReturn \/ Encode \/ Write

Spec == Init /\ [][Next]_vars

(***************************************************************************)
(* The claims.                                                             *)
(***************************************************************************)
HexLower == <<"0","1","2","3","4","5","6","7","8","9","a","b","c","d","e","f">>
HexUpper == <<"0","1","2","3","4","5","6","7","8","9","A","B","C","D","E","F">>

IsHexChar(c) == \E i \in 1..16 : HexLower[i] = c \/ HexUpper[i] = c
NibbleOf(c) == (CHOOSE i \in 1..16 : HexLower[i] = c \/ HexUpper[i] = c) - 1

\* the regular language ^#([0-9a-fA-F]{6}|[0-9a-fA-F]{3})$
LegalColor(s) ==
    /\ Len(s) = 4 \/ Len(s) = 7
    /\ Head(s) = "#"
    /\ \A i \in 2..Len(s) : IsHexChar(s[i])

NewHasRun == Len(trace) >= 2 /\ trace[2] = "build"
Built == NewHasRun /\ pc # "panicked"

\* C1: Metrics::new panics with the fixed message, and returns no descriptor, whenever
\* the foreground or the background string is outside the hex language; when both are
\* inside it, it returns a descriptor and neither hex parse has failed.
C1_InvalidColorRejected ==
    NewHasRun =>
        IF LegalColor(args.color) /\ LegalColor(args.bg_color)
        THEN /\ pc = "built"
             /\ err = ""
             /\ metrics # <<>>
             /\ Len(metrics[1].color) = 3
             /\ Len(metrics[1].bg_color) = 3
        ELSE /\ pc = "panicked"
             /\ err = "The color input must be in a legal hexadecimal format!"
             /\ metrics = <<>>

C1_Witness ==
    /\ pc = "panicked"
    /\ args.color = <<"#","0","0","0">>
    /\ args.bg_color = <<"#","f","f","f","f","f","f","9","9">>
    /\ err = "The color input must be in a legal hexadecimal format!"

\* the triple the claim gives for a legal color string
ClaimRgb(s) ==
    LET six == IF Len(s) = 4 THEN <<s[2], s[2], s[3], s[3], s[4], s[4]>>
               ELSE <<s[2], s[3], s[4], s[5], s[6], s[7]>>
        n == NibbleOf(six[1]) * 1048576 + NibbleOf(six[2]) * 65536 + NibbleOf(six[3]) * 4096
             + NibbleOf(six[4]) * 256 + NibbleOf(six[5]) * 16 + NibbleOf(six[6])
    IN  << (n \div 65536) % 256, (n \div 256) % 256, n % 256 >>

SixDigitForm(s) == <<"#", s[2], s[2], s[3], s[3], s[4], s[4]>>

\* C2: a three-digit color parses to the triple of the six-digit color with each
\* nibble doubled, and a six-digit color to the three bytes of its 24-bit value.
C2_ShortFormEquivalence ==
    Built =>
        /\ metrics[1].color = ClaimRgb(args.color)
        /\ metrics[1].bg_color = ClaimRgb(args.bg_color)
        /\ Len(args.color) = 4 => metrics[1].color = hex_to_rgb(SixDigitForm(args.color))
        /\ Len(args.bg_color) = 4 => metrics[1].bg_color = hex_to_rgb(SixDigitForm(args.bg_color))
        /\ args.color = <<"#","f","f","f">> => metrics[1].color = <<255, 255, 255>>
        /\ args.color = <<"#","4","B","0","0","8","2">> => metrics[1].color = <<75, 0, 130>>
        /\ args.color = <<"#","0","0","0">> => metrics[1].color = <<0, 0, 0>>

C2_Witness ==
    /\ pc = "built"
    /\ args.color = <<"#","f","B","0">>
    /\ metrics[1].color = <<255, 187, 0>>

ReservedFonts == {"Serif", "SansSerif", "Cursive", "Fantasy", "Monospace"}

\* C7: the five reserved names, matched exactly, give their generic family; any other
\* string is kept verbatim as a named family; text, size and padding are carried over.
C7_FamilyMapping ==
    Built =>
        /\ args.font \in ReservedFonts => metrics[1].font = [tag |-> args.font, name |-> ""]
        /\ args.font \notin ReservedFonts => metrics[1].font = [tag |-> "Name", name |-> args.font]
        /\ metrics[1].text = text_buf
        /\ metrics[1].size = args.size
        /\ metrics[1].padding = args.padding

C7_Witness ==
    /\ pc = "built"
    /\ args.font = "monospace"
    /\ metrics[1].font = [tag |-> "Name", name |-> "monospace"]
    /\ metrics[1].text = <<"a", LF, "é">>

HasCanvas == img_buf # <<>>

\* the margin: the pixels within `padding` of an edge
InMargin(q, img, padding) ==
    \/ q[1] < padding
    \/ q[1] >= img.width - padding
    \/ q[2] < padding
    \/ q[2] >= img.height - padding

\* C3: every pixel within `padding` of an edge equals bg_color, whatever samples the
\* shaper hands over, and every write lands inside the canvas.
C3_PaddingCorrectness ==
    HasCanvas =>
        /\ err # "Image index out of bounds"
        /\ \A q \in DOMAIN img_buf[1].px :
              InMargin(q, img_buf[1], args.padding) => img_buf[1].px[q] = ClaimRgb(args.bg_color)

C3_Witness ==
    /\ pc = "rendered"
    /\ args.padding >= 1
    /\ \E q \in DOMAIN img_buf[1].px : img_buf[1].px[q] = <<128, 128, 128>>

Ceil(f) == (f + 99) \div 100

RECURSIVE Newlines(_)
Newlines(text) ==
    IF text = <<>> THEN 0 ELSE (IF Head(text) = LF THEN 1 ELSE 0) + Newlines(Tail(text))

\* C4: the canvas is (ceil(W_actual) + 2*padding) x (ceil(size * 1.2 * line_count) +
\* 2*padding), line_count being the number of newlines plus one.
C4_CanvasDimensions ==
    HasCanvas =>
        /\ img_buf[1].width = Ceil(lay.line_w) + 2 * args.padding
        /\ img_buf[1].height =
              Ceil((args.size * 12 * (Newlines(text_buf) + 1)) \div 10) + 2 * args.padding

C6_BackgroundDominance ==
    (HasCanvas /\ text_buf = <<>>) =>
        \A q \in DOMAIN img_buf[1].px : img_buf[1].px[q] = ClaimRgb(args.bg_color)

C6_Witness ==
    /\ pc = "rendered"
    /\ text_buf = <<>>
    /\ glyph # <<>>
    /\ glyph[1].a = 255 /\ glyph[1].w = 1 /\ glyph[1].h = 1 /\ glyph[1].x = 0 /\ glyph[1].y = 0
    /\ img_buf[1].width = 16
    /\ img_buf[1].px[<<8, 8>>] = <<30, 30, 46>>

RECURSIVE LongestFrom(_, _, _)
LongestFrom(text, cur, best) ==
    IF text = <<>> THEN Max(best, cur)
    ELSE IF Head(text) = LF THEN LongestFrom(Tail(text), 0, Max(best, cur))
    ELSE LongestFrom(Tail(text), cur + 1, best)

\* the length in characters of the longest line, newlines not counted
LongestLineChars(text) == LongestFrom(text, 0, 0)

\* C8: max_line_chars is the length in characters of the longest line of the text,
\* the first line, a text that starts with a newline and the line after the last
\* newline included, and it is computed without arithmetic underflow.
C8_MaxLineChars ==
    /\ err # "attempt to subtract with overflow"
    /\ lay.line_number > 0 => lay.max_line_length = LongestLineChars(text_buf)

\* C9: a GlyphDraw leaves the canvas unchanged exactly when a = 0, x < 0, x >= W_actual,
\* y < 0, y >= H, w # 1 or h # 1; any other sets the one pixel (x + padding, y + padding)
\* to clamp(c * a / 255, 0, 255) per channel and leaves every other pixel unchanged.
C9_FrameEffect ==
    [][pending' = pending - 1 =>
        LET g == glyph'[1]
            skip == \/ g.a = 0
                    \/ g.x < 0
                    \/ g.x * 100 >= lay.line_w
                    \/ g.y < 0
                    \/ g.y * 100 >= lay.render_height
                    \/ g.w # 1
                    \/ g.h # 1
            at == <<g.x + args.padding, g.y + args.padding>>
            value == << Min(Max((g.color[1] * g.a) \div 255, 0), 255),
                        Min(Max((g.color[2] * g.a) \div 255, 0), 255),
                        Min(Max((g.color[3] * g.a) \div 255, 0), 255) >>
        IN  IF skip THEN img_buf' = img_buf
            ELSE /\ img_buf' # <<>>
                 /\ img_buf'[1].width = img_buf[1].width
                 /\ img_buf'[1].height = img_buf[1].height
                 /\ at \in DOMAIN img_buf'[1].px
                 /\ img_buf'[1].px[at] = value
                 /\ \A q \in DOMAIN img_buf[1].px :
                       q # at => img_buf'[1].px[q] = img_buf[1].px[q]
    ]_vars

Stages == <<"read", "build", "render", "encode", "write">>

IsPrefix(s, t) == Len(s) <= Len(t) /\ \A i \in 1..Len(s) : s[i] = t[i]

\* the stages run in order, each at most once; a failure ends the run; nothing reaches
\* standard output before the read, the color check, the render and the encoding succeeded
PipelineOrder ==
    /\ IsPrefix(trace, Stages)
    /\ err # "" => pc = "panicked"
    /\ pc = "panicked" => ~ENABLED Next
    /\ out # <<>> =>
          /\ trace = Stages
          /\ metrics # <<>>
          /\ img_buf # <<>>
          /\ png # <<>>
          /\ IsPrefix(out, png)

\* C10 as stated: the stages run in order, each at most once, a failure is fatal, no byte
\* is written before the four earlier stages succeeded, and a failed run never emits a
\* partial image.
C10_NoPartialImage ==
    /\ PipelineOrder
    /\ pc = "panicked" => (out = <<>> \/ out = png)

\* C10 as amended: the stages run in order, each at most once, a failure is fatal, no
\* byte is written before the four earlier stages succeeded, and a run that fails
\* before the write stage emits nothing; only a failure of the write itself can leave
\* a part of the image on standard output.
C10_NoOutputBeforeWrite ==
    /\ PipelineOrder
    /\ (pc = "panicked" /\ trace # Stages) => out = <<>>

C10_Witness ==
    /\ pc = "panicked"
    /\ trace = <<"read", "build", "render", "encode">>
    /\ text_buf = <<>>
    /\ out = <<>>

====
